---- MODULE Spec2Model ----
(***************************************************************************)
(* State-machine model of the FAT / Registry core of ajnelson/sleuthkit    *)
(* (tsk3/fs/fatfs.c, tsk3/fs/regfs.c): the FAT sector cache, the FAT chain *)
(* resolver, the allocation queries and the two block walkers.             *)
(*                                                                         *)
(* Sizes are scaled down (4-byte sectors, a handful of clusters); the      *)
(* control flow, the arithmetic and the byte-level decoding follow the C.  *)
(***************************************************************************)
EXTENDS Integers, Sequences, FiniteSets, TLC

(***************************************************************************)
(* Bounds of the model.                                                    *)
(***************************************************************************)
\* number of cache slots (N of the spec; FAT_CACHE_N of tsk_fatfs.h)
FAT_CACHE_N == 2
\* sectors per cache slot (S of the spec; FAT_CACHE_S of tsk_fatfs.h)
FAT_CACHE_S == 2
\* log2 of the sector size (fatfs->ssize_sh; 9 in the program, 2 here)
ssize_sh == 2
\* sectors of the FAT12/16 root directory (the literal 32 of fatfs_open)
RootDirSects == 2
\* the last block of the hive (fs->last_block of regfs_open)
RegLastBlock == 5

(***************************************************************************)
(* Program constants.                                                      *)
(***************************************************************************)
XTAF_FIRST_FAT_SECT == 8
\* size of a hive block (HBIN_SIZE)
HBIN_SIZE == 4096
\* sectors read per burst in the pre-data phase of fatfs_block_walk
PreDataBurst == 8

VARIABLES
    fatfs,      \* FATFS_INFO: the geometry fields set by fatfs_open
    regfs,      \* REGFS_INFO: the block range set by regfs_open
    img,        \* the image behind the file system (fixed after open)
    fatc_ttl,   \* FATFS_INFO.fatc_ttl[FAT_CACHE_N]
    fatc_addr,  \* FATFS_INFO.fatc_addr[FAT_CACHE_N]
    fatc_buf,   \* FATFS_INFO.fatc_buf[FAT_CACHE_N][FAT_CACHE_B]
    tsk_errno,  \* the process-wide error slot
    res,        \* the call that returned last: function, argument, results
    lastAcq,    \* slot returned by the latest successful getFATCacheIdx
    acqLog,     \* the successful getFATCacheIdx calls since open (SpecLru)
    walk        \* the block walk in progress (fatfs_block_walk / reg_block_walk)

vars == <<fatfs, regfs, img, fatc_ttl, fatc_addr, fatc_buf, tsk_errno, res,
          lastAcq, acqLog, walk>>

(***************************************************************************)
(* Helpers.                                                                *)
(***************************************************************************)
Pow2(n) == 2 ^ n
ssize == Pow2(ssize_sh)
FAT_CACHE_B == FAT_CACHE_S * ssize
Slots == 0 .. (FAT_CACHE_N - 1)

SetMin(S) == CHOOSE x \in S : \A y \in S : x <= y
SetMax(S) == CHOOSE x \in S : \A y \in S : x >= y
MinOf(a, b) == IF a < b THEN a ELSE b

\* 0x0ffffff7 & mask : the smallest value the sanity check leaves alone
SentinelFloor(ftype) ==
    CASE ftype = "FAT12" -> 4087
      [] ftype = "FAT16" -> 65527
      [] OTHER -> 268435447

(***************************************************************************)
(* The image.  img.id selects the bytes of the FAT area, img.size is the   *)
(* number of bytes that can be read from the start of the file system.     *)
(***************************************************************************)
\* FAT16 little-endian table [RES, RES, 3, EOF, 0, 7, 0xFFF6, BAD, 1, 6, ...]
FatBytes16LE ==
    << 248, 255, 255, 255, 3, 0, 255, 255, 0, 0, 7, 0, 246, 255, 247, 255,
       1, 0, 6, 0, 2, 0, 0, 0, 255, 255, 5, 0, 4, 0, 248, 255 >>
\* FAT32 little-endian table [RES, EOF, 3, BAD, 1, 0x0FFFFFF6, 7, 6|0xF0000000]
FatBytes32LE ==
    << 248, 255, 255, 15, 255, 255, 255, 15, 3, 0, 0, 0, 247, 255, 255, 15,
       1, 0, 0, 0, 246, 255, 255, 15, 7, 0, 0, 0, 6, 0, 0, 240 >>
\* FAT12 little-endian table [RES, EOF, 3, EOF, 0, 0xFF6, 7, BAD, 1, 6, 2, 0, ...]
FatBytes12LE ==
    << 248, 255, 255, 3, 240, 255, 0, 96, 255, 7, 112, 255, 1, 96, 0, 2,
       0, 0, 255, 79, 0, 5, 240, 255, 0, 0, 0, 3, 0, 0, 255, 15 >>
\* the FAT16 table stored big-endian (the XTAF byte order)
FatBytes16BE ==
    << 255, 248, 255, 255, 0, 3, 255, 255, 0, 0, 0, 7, 255, 246, 255, 247,
       0, 1, 0, 6, 0, 2, 0, 0, 255, 255, 0, 5, 0, 4, 255, 248 >>
\* the FAT32 table stored big-endian
FatBytes32BE ==
    << 15, 255, 255, 248, 15, 255, 255, 255, 0, 0, 0, 3, 15, 255, 255, 247,
       0, 0, 0, 1, 15, 255, 255, 246, 0, 0, 0, 7, 240, 0, 0, 6 >>

\* a FAT32 little-endian table with the chains 1 -> 2 -> ... -> 6 -> 2 and 7 -> 7
FatBytes32Loop ==
    << 248, 255, 255, 15, 2, 0, 0, 0, 3, 0, 0, 0, 4, 0, 0, 0,
       5, 0, 0, 0, 6, 0, 0, 0, 2, 0, 0, 0, 7, 0, 0, 0 >>

FatBytes(id) ==
    CASE id = "fat16le" -> FatBytes16LE
      [] id = "fat32loop" -> FatBytes32Loop
      [] id = "fat32le" -> FatBytes32LE
      [] id = "fat12le" -> FatBytes12LE
      [] id = "fat16be" -> FatBytes16BE
      [] OTHER -> FatBytes32BE

ImageIds == {"fat16le", "fat32le", "fat12le", "fat16be", "fat32be"}

\* the byte at offset a of the file system
ImgByte(im, a) ==
    LET k == a - XTAF_FIRST_FAT_SECT * ssize
    IN  IF k >= 0 /\ k < Len(FatBytes(im.id))
        THEN FatBytes(im.id)[k + 1]
        ELSE (a * 7 + 1) % 256

\* tsk_fs_read: the count actually read, -1 when nothing can be read
ReadCount(im, off, len) ==
    IF off >= im.size THEN -1 ELSE MinOf(len, im.size - off)

\* the buffer after tsk_fs_read(fs, off, buf, len): the bytes actually read
\* replace the head of the buffer, the rest keeps its old content
ReadInto(im, buf, off, len) ==
    LET cnt == ReadCount(im, off, len)
    IN  [k \in DOMAIN buf |-> IF k < cnt THEN ImgByte(im, off + k) ELSE buf[k]]

\* the error slot after tsk_fs_read: the reader reports its own failure
ReadErrno(im, off, len, errno) ==
    IF ReadCount(im, off, len) = -1 THEN "READ" ELSE errno

(***************************************************************************)
(* getFATCacheIdx (fatfs.c 63-135).  st is the mutable part of the handle: *)
(* [ttl, addr, buf, errno].  Returns [idx, st]; idx = -1 on error.         *)
(***************************************************************************)
\* lines 70-74: the slots that hold sect
CacheHits(st, sect) ==
    { i \in Slots : /\ st.ttl[i] > 0
                    /\ sect >= st.addr[i]
                    /\ sect < st.addr[i] + FAT_CACHE_S }

\* a front push that forgets to age the other slots
PushFrontNoAging(ttl, i, t) == [ttl EXCEPT ![i] = 1]

\* a front push that ages every other slot in use, whatever its age
PushFrontAgingAll(ttl, i, t) ==
    [a \in Slots |-> IF a = i THEN 1 ELSE IF ttl[a] = 0 THEN 0 ELSE ttl[a] + 1]

\* lines 77-85 and 120-132: push slot i, whose age is t, to the front
PushFront(ttl, i, t) ==
    [a \in Slots |->
        IF a = i THEN 1
        ELSE IF ttl[a] = 0 THEN 0
        ELSE IF ttl[a] < t THEN ttl[a] + 1
        ELSE ttl[a]]

\* a replacement policy that evicts the most recently used slot
VictimMostRecent(ttl) ==
    LET cand == { i \in Slots : ttl[i] = 0 \/ ttl[i] = 1 }
    IN  IF cand = {} THEN 0 ELSE SetMax(cand)

\* a replacement policy that takes the first candidate slot instead of the last
VictimFirst(ttl) ==
    LET cand == { i \in Slots : ttl[i] = 0 \/ ttl[i] >= FAT_CACHE_N }
    IN  IF cand = {} THEN 0 ELSE SetMin(cand)

\* lines 95-102: the last unused slot or slot with a TTL of FAT_CACHE_N
Victim(ttl) ==
    LET cand == { i \in Slots : ttl[i] = 0 \/ ttl[i] >= FAT_CACHE_N }
    IN  IF cand = {} THEN 0 ELSE SetMax(cand)

\* lines 77-86: a hit pushes slot i to the front
CacheHit(st, i) ==
    [idx |-> i, st |-> [st EXCEPT !.ttl = PushFront(st.ttl, i, st.ttl[i])]]

\* lines 104-132: the read into the buffer of slot cidx returned cnt and left
\* nbuf in the buffers
CacheFill(st, sect, cidx, cnt, nbuf) ==
    IF cnt # FAT_CACHE_B
    THEN [idx |-> -1,
          st  |-> [st EXCEPT
                     !.buf = nbuf,
                     !.errno = IF cnt >= 0 THEN "READ"
                               ELSE ReadErrno(img, sect * ssize,
                                              FAT_CACHE_B, st.errno)]]
    ELSE [idx |-> cidx,
          st  |-> [st EXCEPT
                     !.buf = nbuf,
                     !.ttl = PushFront(st.ttl, cidx,
                                       IF st.ttl[cidx] = 0 THEN FAT_CACHE_N + 1
                                       ELSE st.ttl[cidx]),
                     !.addr = [st.addr EXCEPT ![cidx] = sect]]]

\* lines 91-109: a miss reads the sectors into the buffer of slot cidx
CacheMiss(st, sect, cidx) ==
    CacheFill(st, sect, cidx, ReadCount(img, sect * ssize, FAT_CACHE_B),
              [st.buf EXCEPT ![cidx] = ReadInto(img, st.buf[cidx],
                                                sect * ssize, FAT_CACHE_B)])

getFATCacheIdx(st, sect) ==
    IF CacheHits(st, sect) # {}
    THEN CacheHit(st, SetMin(CacheHits(st, sect)))
    ELSE CacheMiss(st, sect, Victim(st.ttl))

(***************************************************************************)
(* fatfs_getFAT (fatfs.c 150-307).  vin is what the caller's *value holds  *)
(* before the call.  Returns [rv, value, st].                              *)
(***************************************************************************)
\* tsk_getu16(endian, p): the two bytes at p in the byte order of the handle
tsk_getu16(endian, b0, b1) ==
    IF endian = "TSK_LIT_ENDIAN" THEN b0 + 256 * b1 ELSE b1 + 256 * b0

\* tsk_getu32(endian, p) & FATFS_32_MASK: the top four bits are dropped
tsk_getu32_masked(endian, b0, b1, b2, b3) ==
    IF endian = "TSK_LIT_ENDIAN"
    THEN b0 + 256 * b1 + 65536 * b2 + 16777216 * (b3 % 16)
    ELSE b3 + 256 * b2 + 65536 * b1 + 16777216 * (b0 % 16)

\* lines 239-248, 264-272, 288-297: the sanity check on the masked entry
SanityCheck(value, ftype) ==
    IF value > fatfs.lastclust /\ value < SentinelFloor(ftype) THEN 0 ELSE value

\* lines 161-165: a request for the unclustered sectors
NonClusteredTail ==
    (fatfs.firstclustsect + fatfs.csize * fatfs.clustcnt - 1) # fatfs.last_block

\* the byte of the FAT the entry of clust starts at
EntryByte(ftype, clust) ==
    CASE ftype = "FAT12" -> clust + (clust \div 2)
      [] ftype = "FAT16" -> clust * 2
      [] OTHER -> clust * 4

\* lines 191-192, 253, 277: the sector of the FAT the entry starts in
EntrySect(ftype, clust) ==
    fatfs.firstfatsect + (EntryByte(ftype, clust) \div ssize)

\* an offset that forgets which sector of the window the entry is in
EntryOffsInSector(ftype, clust, base) == EntryByte(ftype, clust) % ssize

\* lines 200-201, 259-260, 283-284: the offset of the entry in the slot buffer
EntryOffs(ftype, clust, base) ==
    ((EntrySect(ftype, clust) - base) * ssize) + (EntryByte(ftype, clust) % ssize)

\* lines 229, 261, 286: the byte at offs of the buffer of slot cidx; a read
\* past the end of the buffer is undefined, junk is what it finds
SlotByte(st, cidx, offs, junk) ==
    IF offs \in 0 .. (FAT_CACHE_B - 1) THEN st.buf[cidx][offs] ELSE junk

\* lines 231-249: the FAT12 entry at offs of the buffer of slot cidx
Value12(st, cidx, offs, clust, junk) ==
    [rv    |-> 0,
     value |-> SanityCheck(
                 (IF clust % 2 = 1
                  THEN tsk_getu16(fatfs.endian, SlotByte(st, cidx, offs, junk),
                                  SlotByte(st, cidx, offs + 1, junk)) \div 16
                  ELSE tsk_getu16(fatfs.endian, SlotByte(st, cidx, offs, junk),
                                  SlotByte(st, cidx, offs + 1, junk))) % 4096,
                 "FAT12"),
     offs  |-> offs,
     st    |-> st]

\* a reload that leaves the base of the slot where it was
Reloaded12KeepBase(st, cidx, clust, vin, sect, cnt) ==
    IF cnt # FAT_CACHE_B
    THEN [rv |-> 1, value |-> vin, st |-> [st EXCEPT !.errno = "READ"]]
    ELSE Value12(st, cidx, EntryByte("FAT12", clust) % ssize, clust, vin)

\* lines 213-225: the reload of slot cidx at sect returned cnt; st has the
\* buffer the read left
Reloaded12(st, cidx, clust, vin, sect, cnt) ==
    IF cnt # FAT_CACHE_B
    THEN [rv |-> 1, value |-> vin,
          st |-> [st EXCEPT
                    !.errno = IF cnt >= 0 THEN "READ"
                              ELSE ReadErrno(img, sect * ssize, FAT_CACHE_B,
                                             st.errno)]]
    ELSE Value12([st EXCEPT !.addr = [st.addr EXCEPT ![cidx] = sect]],
                 cidx, EntryByte("FAT12", clust) % ssize, clust, vin)

\* lines 207-212: the entry goes across the end of the buffer, the slot is
\* read again from the sector the entry starts in
Reload12(st, cidx, clust, vin, sect) ==
    Reloaded12([st EXCEPT
                  !.buf = [st.buf EXCEPT
                             ![cidx] = ReadInto(img, st.buf[cidx],
                                                sect * ssize, FAT_CACHE_B)]],
               cidx, clust, vin, sect,
               ReadCount(img, sect * ssize, FAT_CACHE_B))

\* a FAT12 decoder without the reload of an entry that goes across the end of
\* the buffer
Decode12NoReload(c, clust, vin) ==
    IF c.idx = -1 THEN [rv |-> 1, value |-> vin, st |-> c.st]
    ELSE Value12(c.st, c.idx, EntryOffs("FAT12", clust, c.st.addr[c.idx]),
                 clust, vin)

\* lines 196-229: c is what getFATCacheIdx returned
Decode12(c, clust, vin) ==
    IF c.idx = -1 THEN [rv |-> 1, value |-> vin, st |-> c.st]
    ELSE IF EntryOffs("FAT12", clust, c.st.addr[c.idx]) = FAT_CACHE_B - 1
    THEN Reload12(c.st, c.idx, clust, vin, EntrySect("FAT12", clust))
    ELSE Value12(c.st, c.idx, EntryOffs("FAT12", clust, c.st.addr[c.idx]),
                 clust, vin)

\* lines 180-249
getFAT12(st, clust, vin) ==
    IF (clust \div 4096) % 16 # 0
    THEN [rv |-> 1, value |-> vin, st |-> [st EXCEPT !.errno = "ARG"]]
    ELSE Decode12(getFATCacheIdx(st, EntrySect("FAT12", clust)), clust, vin)

\* lines 261-272: the FAT16 entry at offs of the buffer of slot cidx
Value16(st, cidx, offs, junk) ==
    [rv    |-> 0,
     value |-> SanityCheck(tsk_getu16(fatfs.endian,
                                      SlotByte(st, cidx, offs, junk),
                                      SlotByte(st, cidx, offs + 1, junk)) % 65536,
                           "FAT16"),
     offs  |-> offs,
     st    |-> st]

\* lines 253-259: c is what getFATCacheIdx returned
Decode16(c, clust, vin) ==
    IF c.idx = -1 THEN [rv |-> 1, value |-> vin, st |-> c.st]
    ELSE Value16(c.st, c.idx, EntryOffs("FAT16", clust, c.st.addr[c.idx]), vin)

\* lines 251-273
getFAT16(st, clust, vin) ==
    Decode16(getFATCacheIdx(st, EntrySect("FAT16", clust)), clust, vin)

\* lines 286-297: the FAT32 entry at offs of the buffer of slot cidx
Value32(st, cidx, offs, junk) ==
    [rv    |-> 0,
     value |-> SanityCheck(tsk_getu32_masked(fatfs.endian,
                                             SlotByte(st, cidx, offs, junk),
                                             SlotByte(st, cidx, offs + 1, junk),
                                             SlotByte(st, cidx, offs + 2, junk),
                                             SlotByte(st, cidx, offs + 3, junk)),
                           "FAT32"),
     offs  |-> offs,
     st    |-> st]

\* lines 277-284: c is what getFATCacheIdx returned
Decode32(c, clust, vin) ==
    IF c.idx = -1 THEN [rv |-> 1, value |-> vin, st |-> c.st]
    ELSE Value32(c.st, c.idx, EntryOffs("FAT32", clust, c.st.addr[c.idx]), vin)

\* lines 275-298
getFAT32(st, clust, vin) ==
    Decode32(getFATCacheIdx(st, EntrySect("FAT32", clust)), clust, vin)

fatfs_getFAT(st, clust, vin) ==
    IF clust > fatfs.lastclust
    THEN IF clust = fatfs.lastclust + 1 /\ NonClusteredTail
         THEN [rv |-> 0, value |-> vin, st |-> st]
         ELSE [rv |-> 1, value |-> vin, st |-> [st EXCEPT !.errno = "ARG"]]
    ELSE CASE fatfs.ftype = "FAT12" -> getFAT12(st, clust, vin)
           [] fatfs.ftype = "FAT16" -> getFAT16(st, clust, vin)
           [] fatfs.ftype = "FAT32" -> getFAT32(st, clust, vin)
           [] OTHER -> [rv |-> 1, value |-> vin,
                        st |-> [st EXCEPT !.errno = "ARG"]]

(***************************************************************************)
(* Allocation queries (fatfs.c 311-348).  junk is the indeterminate value  *)
(* of the local `content` of fatfs_is_clustalloc.  Return [rv, st].        *)
(***************************************************************************)
\* lines 316-320: g is what fatfs_getFAT returned
AllocOf(g) ==
    IF g.rv # 0 THEN [rv |-> -1, st |-> g.st]
    ELSE IF g.value = 0 THEN [rv |-> 0, st |-> g.st]
    ELSE [rv |-> 1, st |-> g.st]

fatfs_is_clustalloc(st, clust, junk) == AllocOf(fatfs_getFAT(st, clust, junk))

\* FATFS_SECT_2_CLUST and FATFS_CLUST_2_SECT of tsk_fatfs.h
FATFS_SECT_2_CLUST(s) == 2 + ((s - fatfs.firstclustsect) \div fatfs.csize)
FATFS_CLUST_2_SECT(c) == fatfs.firstclustsect + ((c - 2) * fatfs.csize)

fatfs_is_sectalloc(st, sect, junk) ==
    IF sect < fatfs.firstclustsect THEN [rv |-> 1, st |-> st]
    ELSE IF /\ sect <= fatfs.last_block
            /\ sect >= fatfs.firstclustsect + fatfs.csize * fatfs.clustcnt
    THEN [rv |-> 0, st |-> st]
    ELSE fatfs_is_clustalloc(st, FATFS_SECT_2_CLUST(sect), junk)

(***************************************************************************)
(* The state after fatfs_open (fatfs.c 1386-1632).  The geometry comes     *)
(* from the table of known partitions, scaled down: rootsect, sectperfat,  *)
(* clustcnt and lastclust are table values, the cluster size is read from  *)
(* the boot sector, the last block follows from the size of the image.     *)
(***************************************************************************)
\* two rows of the table: as in the table, lastclust is below clustcnt + 1
ResolverRow == [rootsect |-> 16, sectperfat |-> 8, clustcnt |-> 8, lastclust |-> 6]
WalkRow == [rootsect |-> 12, sectperfat |-> 4, clustcnt |-> 6, lastclust |-> 4]
PartitionTable == {ResolverRow, WalkRow}

Endians == {"TSK_LIT_ENDIAN", "TSK_BIG_ENDIAN"}

\* the handle fatfs_open builds from a table row, a cluster size, a sector
\* count, a FAT type and the byte order found in the boot sector
OpenedFs(row, csize, sectors, ftype, endian) ==
    [ ftype          |-> ftype,
      endian         |-> endian,
      csize          |-> csize,
      firstfatsect   |-> XTAF_FIRST_FAT_SECT,
      sectperfat     |-> row.sectperfat,
      rootsect       |-> row.rootsect,
      firstdatasect  |-> row.rootsect,
      firstclustsect |-> row.rootsect + RootDirSects,
      clustcnt       |-> row.clustcnt,
      lastclust      |-> row.lastclust,
      first_block    |-> 0,
      last_block     |-> sectors - 1 ]

\* the first sector past the cluster area
ClusterEnd(f) == f.firstclustsect + f.csize * f.clustcnt

\* lines 1604-1607: every slot unused
EmptyTtl == [i \in Slots |-> 0]
EmptyAddr == [i \in Slots |-> 0]
EmptyBuf == [i \in Slots |-> [k \in 0 .. (FAT_CACHE_B - 1) |-> 0]]

\* no hive is open
NoRegfs == [first_block |-> 0, last_block |-> -1]
\* no FAT file system is open
NoFatfs == [ftype |-> "NONE"]

NoCall == [fn |-> "none", arg |-> 0, rv |-> 0, value |-> 0]
NoWalk ==
    [pc |-> "idle", fs |-> "none", s |-> 0, e |-> 0, flags |-> {},
     phase |-> "none", at |-> "none", addr |-> 0, i |-> 0, read_size |-> 0, junk |-> 0,
     myflags |-> {}, blkflags |-> {}, seen |-> << >>, last |-> "none",
     rv |-> -1,
     readfail |-> FALSE,
     heap |-> [blk |-> "none", buf |-> "none", allocs |-> 0, frees |-> 0,
               bad |-> FALSE]]

\* the mutable part of the handle, as the operators above take it
CurSt == [ttl |-> fatc_ttl, addr |-> fatc_addr, buf |-> fatc_buf,
          errno |-> tsk_errno]

\* the values an uninitialised local can hold
Indeterminate == {0, 1}

InitCommon ==
    /\ fatc_ttl = EmptyTtl
    /\ fatc_addr = EmptyAddr
    /\ fatc_buf = EmptyBuf
    /\ tsk_errno = "NONE"
    /\ res = NoCall
    /\ lastAcq = -1
    /\ acqLog = << >>
    /\ walk = NoWalk

(***************************************************************************)
(* Spec: the chain resolver on an opened file system.  The image is a FAT  *)
(* written for the FAT type the file system is opened as, in either byte   *)
(* order; it is whole, or it ends inside the part of the FAT the resolver  *)
(* reads.                                                                  *)
(***************************************************************************)
FtypeOf(id) ==
    CASE id \in {"fat12le"} -> "FAT12"
      [] id \in {"fat16le", "fat16be"} -> "FAT16"
      [] OTHER -> "FAT32"

\* the number of FAT sectors left in a truncated image
CutFor(ftype) ==
    CASE ftype = "FAT12" -> 2
      [] ftype = "FAT16" -> 4
      [] OTHER -> 5

InitFs(ids, cuts) ==
    /\ InitCommon
    /\ regfs = NoRegfs
    /\ \E id \in ids, endian \in Endians, csize \in {1, 2} :
          /\ fatfs = OpenedFs(ResolverRow, csize,
                              ResolverRow.rootsect + RootDirSects
                                + csize * ResolverRow.clustcnt + 2 * (csize - 1),
                              FtypeOf(id), endian)
          /\ \E cut \in cuts :
                img = [id |-> id,
                       size |-> IF cut = 1
                                THEN (XTAF_FIRST_FAT_SECT + CutFor(FtypeOf(id))) * ssize
                                ELSE (fatfs.last_block + 1) * ssize]

Init == InitFs(ImageIds, {0, 1})

\* the handle takes the state st a call left
StoreSt(st) ==
    /\ fatc_ttl' = st.ttl
    /\ fatc_addr' = st.addr
    /\ fatc_buf' = st.buf
    /\ tsk_errno' = st.errno

GetFATReturn(clust, g) ==
    /\ StoreSt(g.st)
    /\ res' = [fn |-> "getFAT", arg |-> clust, rv |-> g.rv, value |-> g.value]
    /\ UNCHANGED <<fatfs, regfs, img, lastAcq, acqLog, walk>>

GetFAT(clust, vin) == GetFATReturn(clust, fatfs_getFAT(CurSt, clust, vin))

Next ==
    \E clust \in 0 .. (fatfs.lastclust + 2), vin \in Indeterminate :
        GetFAT(clust, vin)

Spec == Init /\ [][Next]_vars

(***************************************************************************)
(* SpecReadable: the chain resolver on images that are whole, so that      *)
(* every read of the FAT succeeds.                                         *)
(***************************************************************************)
InitReadable == InitFs(ImageIds, {0})

SpecReadable == InitReadable /\ [][Next]_vars

(***************************************************************************)
(* SpecSplit: the chain resolver on a FAT12 file system with enough        *)
(* clusters for entries that go across the end of a slot whose window      *)
(* another slot overlaps.  The image is whole or ends inside the FAT.      *)
(* acqLog keeps, for the latest call, the slot the lookup returned and the *)
(* base it had then.                                                       *)
(***************************************************************************)
SplitRow == [rootsect |-> 16, sectperfat |-> 8, clustcnt |-> 14, lastclust |-> 12]

\* the sizes of the image in sectors: whole, or cut inside the FAT
SplitSizes ==
    { fatfs.last_block + 1,
      XTAF_FIRST_FAT_SECT + CutFor("FAT12"),
      XTAF_FIRST_FAT_SECT + 2 * FAT_CACHE_S }

InitSplit ==
    /\ InitCommon
    /\ regfs = NoRegfs
    /\ \E endian \in Endians :
          fatfs = OpenedFs(SplitRow, 1,
                           SplitRow.rootsect + RootDirSects + SplitRow.clustcnt,
                           "FAT12", endian)
    /\ \E sectors \in SplitSizes : img = [id |-> "fat12le", size |-> sectors * ssize]

\* c is what the lookup of the call returned, g what the call returned
GetFATLoggedReturn(clust, c, g) ==
    /\ StoreSt(g.st)
    /\ res' = [fn |-> "getFAT", arg |-> clust, rv |-> g.rv, value |-> g.value]
    /\ acqLog' = IF c.idx # -1
                 THEN << [sect |-> c.st.addr[c.idx], idx |-> c.idx] >>
                 ELSE << >>
    /\ UNCHANGED <<fatfs, regfs, img, lastAcq, walk>>

GetFATLogged(clust, vin) ==
    GetFATLoggedReturn(clust,
                       getFATCacheIdx(CurSt, EntrySect("FAT12", clust)),
                       fatfs_getFAT(CurSt, clust, vin))

NextSplit ==
    \E clust \in 0 .. fatfs.lastclust, vin \in Indeterminate :
        GetFATLogged(clust, vin)

SpecSplit == InitSplit /\ [][NextSplit]_vars

(***************************************************************************)
(* The walk of the root directory chain in fatfs_fsstat (fatfs.c 850-880). *)
(* walk holds the locals of the loop: clust, clust_p, list_seen, and the   *)
(* clusters fatfs_getFAT was called for, in order.                         *)
(***************************************************************************)
\* FATFS_SECT_2_CLUST in the unsigned arithmetic of TSK_DADDR_T: below
\* firstclustsect the difference wraps around.  The model wraps at 2^30
\* instead of 2^64; either way the result is above every cluster and every
\* sentinel.
WrappedSect2Clust(s) ==
    IF s >= fatfs.firstclustsect THEN FATFS_SECT_2_CLUST(s)
    ELSE 2 + ((Pow2(30) - (fatfs.firstclustsect - s)) \div fatfs.csize)

\* FATFS_ISEOF(val, FATFS_32_MASK): 0x0ffffff8 .. 0x0fffffff
FATFS_ISEOF(val) ==
    val >= SentinelFloor("FAT32") + 1 /\ val <= SentinelFloor("FAT32") + 8

\* a list that never finds a cluster it holds
SeenNever(list_seen, clust) == FALSE

\* line 863: tsk_list_find(list_seen, clust)
tsk_list_find(list_seen, clust) == clust \in list_seen

\* lines 855-857: the locals before the loop
ChainStart(clust) ==
    [pc |-> "chain", fs |-> "fat", clust |-> clust, clust_p |-> fatfs.rootsect,
     list_seen |-> {}, visited |-> << >>]

\* lines 875-877: g is what fatfs_getFAT returned for w.clust
ChainFollow(w, g) ==
    [w  |-> [w EXCEPT !.pc = IF g.rv # 0 THEN "chaindone" ELSE "chain",
                      !.clust = IF g.rv # 0 THEN w.clust ELSE g.value,
                      !.clust_p = w.clust,
                      !.list_seen = w.list_seen \cup {w.clust},
                      !.visited = Append(w.visited, w.clust)],
     st |-> g.st]

\* lines 858-877: one pass through the loop; junk is what nxt holds before
\* fatfs_getFAT is called
ChainIter(w, st, junk) ==
    IF w.clust = 0 \/ FATFS_ISEOF(w.clust)
    THEN [w |-> [w EXCEPT !.pc = "chaindone"], st |-> st]
    ELSE IF tsk_list_find(w.list_seen, w.clust)
    THEN [w |-> [w EXCEPT !.pc = "chaindone", !.clust_p = w.clust], st |-> st]
    ELSE ChainFollow(w, fatfs_getFAT(st, w.clust, junk))

(***************************************************************************)
(* SpecChain: fatfs_fsstat walks the chain of the root directory of a      *)
(* freshly opened FAT32 file system.  The root cluster is what             *)
(* FATFS_SECT_2_CLUST gives for rootsect or any cluster number up to       *)
(* lastclust + 2; the image is whole or ends inside the FAT.               *)
(***************************************************************************)
InitChain == InitFs({"fat32le", "fat32be", "fat32loop"}, {0, 1})

RootClusters ==
    {WrappedSect2Clust(fatfs.rootsect)} \cup (0 .. (fatfs.lastclust + 2))

ChainStore(r) ==
    /\ walk' = r.w
    /\ StoreSt(r.st)
    /\ UNCHANGED <<fatfs, regfs, img, res, lastAcq, acqLog>>

RootChainStart(clust) ==
    /\ walk.pc = "idle"
    /\ ChainStore([w |-> ChainStart(clust), st |-> CurSt])

\* the loop does not go on past clustcnt + 1 calls of fatfs_getFAT
RootChainStep(junk) ==
    /\ walk.pc = "chain"
    /\ Len(walk.visited) <= fatfs.clustcnt
    /\ ChainStore(ChainIter(walk, CurSt, junk))

RootChainSteps == \E junk \in Indeterminate : RootChainStep(junk)

NextChain ==
    \/ \E clust \in RootClusters : RootChainStart(clust)
    \/ RootChainSteps

SpecChain == InitChain /\ [][NextChain]_vars

\* the loop of fatfs_fsstat is not interrupted
SpecChainLive == SpecChain /\ WF_vars(RootChainSteps)

(***************************************************************************)
(* SpecAlloc: the allocation queries on an opened file system.             *)
(***************************************************************************)
InitAlloc == InitFs({"fat12le", "fat16le", "fat32be"}, {0})

IsSectAllocReturn(sect, junk, r) ==
    /\ StoreSt(r.st)
    /\ res' = [fn |-> "is_sectalloc", arg |-> sect, rv |-> r.rv, value |-> junk]
    /\ UNCHANGED <<fatfs, regfs, img, lastAcq, acqLog, walk>>

IsSectAlloc(sect, junk) ==
    IsSectAllocReturn(sect, junk, fatfs_is_sectalloc(CurSt, sect, junk))

\* one sector of the area before the clusters, every sector of the cluster
\* area and the sectors that follow it
AllocSects ==
    {0} \cup ((fatfs.firstclustsect - 1) .. (ClusterEnd(fatfs) + fatfs.csize))

NextAlloc ==
    \E sect \in AllocSects, junk \in Indeterminate : IsSectAlloc(sect, junk)

SpecAlloc == InitAlloc /\ [][NextAlloc]_vars

(***************************************************************************)
(* SpecCache: getFATCacheIdx called for any sector, in any order.  The     *)
(* image ends inside the last window, so some fills are short reads.       *)
(* SpecLru: the same calls, logged, up to FAT_CACHE_N + 1 successful ones. *)
(***************************************************************************)
\* the sectors of `windows` cache windows laid end to end, and two more
CacheSects(windows) ==
    XTAF_FIRST_FAT_SECT .. (XTAF_FIRST_FAT_SECT + FAT_CACHE_S * windows + 1)

\* a file system whose image ends with the last of the windows
InitCacheOf(windows) ==
    /\ InitCommon
    /\ regfs = NoRegfs
    /\ fatfs = OpenedFs(ResolverRow, 1,
                        XTAF_FIRST_FAT_SECT + FAT_CACHE_S * windows,
                        "FAT16", "TSK_LIT_ENDIAN")
    /\ img = [id |-> "fat16le", size |-> (fatfs.last_block + 1) * ssize]

InitCache == InitCacheOf(FAT_CACHE_N)

AcquireReturn(sect, c) ==
    /\ StoreSt(c.st)
    /\ res' = [fn |-> "getFATCacheIdx", arg |-> sect, rv |-> c.idx, value |-> 0]
    /\ lastAcq' = IF c.idx # -1 THEN c.idx ELSE lastAcq

Acquire(sect) ==
    /\ AcquireReturn(sect, getFATCacheIdx(CurSt, sect))
    /\ UNCHANGED <<fatfs, regfs, img, acqLog, walk>>

NextCache == \E sect \in CacheSects(FAT_CACHE_N) : Acquire(sect)

SpecCache == InitCache /\ [][NextCache]_vars

AcquireLoggedReturn(sect, c) ==
    /\ AcquireReturn(sect, c)
    /\ acqLog' = IF c.idx # -1
                 THEN Append(acqLog, [sect |-> sect, idx |-> c.idx])
                 ELSE acqLog
    /\ UNCHANGED <<fatfs, regfs, img, walk>>

AcquireLogged(sect) ==
    /\ Len(acqLog) <= FAT_CACHE_N
    /\ AcquireLoggedReturn(sect, getFATCacheIdx(CurSt, sect))

NextLru == \E sect \in CacheSects(FAT_CACHE_N + 1) : AcquireLogged(sect)

InitLru == InitCacheOf(FAT_CACHE_N + 1)

SpecLru == InitLru /\ [][NextLru]_vars

(***************************************************************************)
(* Claims about the cache.                                                 *)
(***************************************************************************)
ActiveSlots == { i \in Slots : fatc_ttl[i] > 0 }

\* C1: once an acquire has succeeded, the slots in use have pairwise distinct
\* TTLs in 1 .. FAT_CACHE_N + 1, exactly one slot has TTL 1, and it is the
\* slot the latest successful acquire returned.
C1_CacheInvariant ==
    lastAcq # -1 =>
        /\ \A i \in ActiveSlots : fatc_ttl[i] \in 1 .. (FAT_CACHE_N + 1)
        /\ \A i, j \in ActiveSlots : i # j => fatc_ttl[i] # fatc_ttl[j]
        /\ { i \in Slots : fatc_ttl[i] = 1 } = {lastAcq}

\* every slot in use, the latest call a short read that left the slot of the
\* latest successful acquire in front
C1_Witness ==
    /\ ActiveSlots = Slots
    /\ res.fn = "getFATCacheIdx" /\ res.rv = -1
    /\ lastAcq # -1 /\ fatc_ttl[lastAcq] = 1
    /\ \E i \in Slots : fatc_ttl[i] = FAT_CACHE_N

\* two logged acquires whose windows do not overlap
Disjoint(a, b) == a.sect + FAT_CACHE_S <= b.sect \/ b.sect + FAT_CACHE_S <= a.sect

LruRun ==
    /\ Len(acqLog) = FAT_CACHE_N + 1
    /\ \A i, j \in 1 .. (FAT_CACHE_N + 1) : i # j => Disjoint(acqLog[i], acqLog[j])

\* C2: after FAT_CACHE_N + 1 successful acquires of sectors with pairwise
\* disjoint windows on an empty cache, the last acquire has reused the slot of
\* the first, and each of the sectors in between is still a hit in its slot.
C2_Lru ==
    LruRun =>
        /\ acqLog[FAT_CACHE_N + 1].idx = acqLog[1].idx
        /\ fatc_addr[acqLog[1].idx] = acqLog[FAT_CACHE_N + 1].sect
        /\ \A k \in 2 .. FAT_CACHE_N :
              /\ CacheHits(CurSt, acqLog[k].sect) = {acqLog[k].idx}
              /\ getFATCacheIdx(CurSt, acqLog[k].sect).idx = acqLog[k].idx
              /\ getFATCacheIdx(CurSt, acqLog[k].sect).st.buf = fatc_buf

C2_Witness ==
    /\ LruRun
    /\ acqLog[FAT_CACHE_N + 1].idx = acqLog[1].idx
    /\ res.rv = acqLog[1].idx

UnusedSlots == { i \in Slots : fatc_ttl[i] = 0 }

\* the step is a successful acquire of a sector that no slot held
MissFilled ==
    /\ res'.fn = "getFATCacheIdx" /\ res'.rv # -1
    /\ CacheHits(CurSt, res'.arg) = {}

\* C22: a miss fills the highest-index unused slot when a slot is unused, and
\* otherwise a slot whose TTL is at least FAT_CACHE_N; after the fill that slot
\* has TTL 1 and the requested sector as its base, and every other slot in use
\* that was younger than it is one older.
C22_VictimChoice ==
    [][MissFilled =>
        /\ UnusedSlots # {} => res'.rv = SetMax(UnusedSlots)
        /\ UnusedSlots = {} => fatc_ttl[res'.rv] >= FAT_CACHE_N
        /\ fatc_ttl'[res'.rv] = 1
        /\ fatc_addr'[res'.rv] = res'.arg
        /\ \A i \in ActiveSlots \ {res'.rv} :
              (fatc_ttl[res'.rv] = 0 \/ fatc_ttl[i] < fatc_ttl[res'.rv])
                  => fatc_ttl'[i] = fatc_ttl[i] + 1]_vars

\* the latest logged acquire asked for a sector outside every window loaded
\* before it, found every slot in use, and filled one of them
C22_Witness ==
    /\ Len(acqLog) = FAT_CACHE_N + 1
    /\ \A k \in 1 .. FAT_CACHE_N : Disjoint(acqLog[k], acqLog[FAT_CACHE_N + 1])
    /\ \A i, j \in 1 .. FAT_CACHE_N : i # j => acqLog[i].idx # acqLog[j].idx
    /\ res.rv # -1 /\ res.arg = acqLog[FAT_CACHE_N + 1].sect
    /\ fatc_addr[res.rv] = res.arg /\ fatc_ttl[res.rv] = 1
    /\ \A i \in Slots \ {res.rv} : fatc_ttl[i] >= 2

\* C25: the TTLs of the k slots in use are exactly 1 .. k, none is above
\* FAT_CACHE_N, and when every slot is in use exactly one has TTL FAT_CACHE_N
\* and it is the slot the next miss takes.
C25_ExactRanking ==
    /\ { fatc_ttl[i] : i \in ActiveSlots } = 1 .. Cardinality(ActiveSlots)
    /\ \A i \in Slots : fatc_ttl[i] <= FAT_CACHE_N
    /\ ActiveSlots = Slots =>
          /\ Cardinality({ i \in Slots : fatc_ttl[i] = FAT_CACHE_N }) = 1
          /\ fatc_ttl[Victim(fatc_ttl)] = FAT_CACHE_N
          /\ \A sect \in CacheSects(FAT_CACHE_N) :
                CacheHits(CurSt, sect) = {} =>
                    getFATCacheIdx(CurSt, sect).idx \in {-1, Victim(fatc_ttl)}

\* every slot in use after a successful acquire, with a sector left that no
\* slot holds
C25_Witness ==
    /\ ActiveSlots = Slots
    /\ res.fn = "getFATCacheIdx" /\ res.rv # -1
    /\ \E i \in Slots : fatc_ttl[i] = FAT_CACHE_N /\ i # res.rv
    /\ \E sect \in CacheSects(FAT_CACHE_N) :
          /\ CacheHits(CurSt, sect) = {}
          /\ getFATCacheIdx(CurSt, sect).idx # -1

(***************************************************************************)
(* Claims about the chain resolver (checked under Spec).                   *)
(***************************************************************************)
\* byte k of the first FAT as it is stored in the image
FatByte(k) == ImgByte(img, fatfs.firstfatsect * ssize + k)

\* the stored entry of cluster c read little-endian, per flavor, masked
EntryLE(ftype, c) ==
    CASE ftype = "FAT12" ->
            LET i == c + (c \div 2)
                w == FatByte(i) + 256 * FatByte(i + 1)
            IN  (IF c % 2 = 1 THEN w \div 16 ELSE w) % 4096
      [] ftype = "FAT16" -> FatByte(2 * c) + 256 * FatByte(2 * c + 1)
      [] OTHER -> FatByte(4 * c) + 256 * FatByte(4 * c + 1)
                    + 65536 * FatByte(4 * c + 2)
                    + 16777216 * (FatByte(4 * c + 3) % 16)

\* the stored entry of cluster c read big-endian
EntryBE(ftype, c) ==
    CASE ftype = "FAT12" ->
            LET i == c + (c \div 2)
                w == FatByte(i + 1) + 256 * FatByte(i)
            IN  (IF c % 2 = 1 THEN w \div 16 ELSE w) % 4096
      [] ftype = "FAT16" -> FatByte(2 * c + 1) + 256 * FatByte(2 * c)
      [] OTHER -> FatByte(4 * c + 3) + 256 * FatByte(4 * c + 2)
                    + 65536 * FatByte(4 * c + 1)
                    + 16777216 * (FatByte(4 * c) % 16)

\* the stored entry of cluster c in the byte order of the handle
StoredEntry(c) ==
    IF fatfs.endian = "TSK_LIT_ENDIAN"
    THEN EntryLE(fatfs.ftype, c) ELSE EntryBE(fatfs.ftype, c)

InClampRange(v) == v > fatfs.lastclust /\ v < SentinelFloor(fatfs.ftype)

ResolvedOk == res.fn = "getFAT" /\ res.rv = 0 /\ res.arg <= fatfs.lastclust

\* C3: on a little-endian handle a successful getFat(c), c in [2, lastCluster],
\* returns the entry stored for c at byte offset c + c/2 (FAT12, shifted when
\* c is odd), 2c (FAT16) or 4c (FAT32), read little-endian and masked, with
\* only the sanity clamp applied to it.
C3_EntryDecode ==
    (ResolvedOk /\ res.arg >= 2 /\ fatfs.endian = "TSK_LIT_ENDIAN") =>
        LET v == EntryLE(fatfs.ftype, res.arg)
        IN  res.value = IF InClampRange(v) THEN 0 ELSE v

\* C4: a successful getFat(c) returns 0 when the masked entry stored for c is
\* above lastCluster and below 0x0ffffff7 & mask, and returns the masked entry
\* unchanged in every other case.
C4_RangeClamp ==
    ResolvedOk =>
        /\ InClampRange(StoredEntry(res.arg)) => res.value = 0
        /\ ~InClampRange(StoredEntry(res.arg)) => res.value = StoredEntry(res.arg)

\* C5: a successful getFat of a cluster of the FAT returns a successor in
\* [2, lastCluster], or 0, or a value at or above 0x0ffffff7 & mask.
C5_ResultRange ==
    ResolvedOk =>
        \/ res.value \in 2 .. fatfs.lastclust
        \/ res.value = 0
        \/ res.value >= SentinelFloor(fatfs.ftype)

\* C6: getFat(lastCluster + 1) succeeds with successor 0 when the file system
\* has a non-clustered tail; every other request for a cluster above
\* lastCluster fails with ARG; the cache is the same after either.
C6_OutOfRange ==
    [][ (res'.fn = "getFAT" /\ res'.arg > fatfs.lastclust) =>
            /\ IF res'.arg = fatfs.lastclust + 1 /\ NonClusteredTail
               THEN res'.rv = 0 /\ res'.value = 0
               ELSE res'.rv = 1 /\ tsk_errno' = "ARG"
            /\ fatc_ttl' = fatc_ttl
            /\ fatc_addr' = fatc_addr
            /\ fatc_buf' = fatc_buf ]_vars

(***************************************************************************)
(* Claims about the allocation queries (checked under SpecAlloc).          *)
(***************************************************************************)
\* what the allocation state of cluster c is by the contract of getFat:
\* -1 when getFat fails, 1 for a non-zero successor, 0 otherwise
ClusterAllocByContract(c) ==
    IF c > fatfs.lastclust
    THEN IF c = fatfs.lastclust + 1 /\ NonClusteredTail THEN 0 ELSE -1
    ELSE IF InClampRange(StoredEntry(c)) \/ StoredEntry(c) = 0 THEN 0 ELSE 1

\* C10: isSectorAllocated is allocated below firstClusterSector, unallocated
\* from the end of the cluster area to last_block, and otherwise the
\* allocation state of the sector's cluster: allocated iff getFat yields a
\* non-zero successor, an error iff getFat fails.
C10_SectAlloc ==
    res.fn = "is_sectalloc" =>
        res.rv = IF res.arg < fatfs.firstclustsect THEN 1
                 ELSE IF res.arg >= ClusterEnd(fatfs) /\ res.arg <= fatfs.last_block
                 THEN 0
                 ELSE ClusterAllocByContract(FATFS_SECT_2_CLUST(res.arg))

(***************************************************************************)
(* fatfs_block_getflags (fatfs.c 353-381).  Returns [flags, st].           *)
(***************************************************************************)
\* lines 369-378: r is what fatfs_is_sectalloc returned
ClusterFlags(r) ==
    [flags |-> {"CONT"} \cup (IF r.rv = -1 THEN {}
                              ELSE IF r.rv = 1 THEN {"ALLOC"}
                              ELSE {"UNALLOC"}),
     st |-> r.st]

fatfs_block_getflags(st, a_addr, junk) ==
    IF a_addr < fatfs.firstdatasect
    THEN [flags |-> {"META", "ALLOC"}, st |-> st]
    ELSE IF a_addr < fatfs.firstclustsect
    THEN [flags |-> {"CONT", "ALLOC"}, st |-> st]
    ELSE ClusterFlags(fatfs_is_sectalloc(st, a_addr, junk))

(***************************************************************************)
(* SpecFlags: fatfs_block_getflags called for any sector of the file       *)
(* system, on a whole image or on one that ends inside the FAT.            *)
(***************************************************************************)
InitFlags == InitFs({"fat12le", "fat16le", "fat32be"}, {0, 1})

BlockGetFlagsReturn(a_addr, junk, r) ==
    /\ StoreSt(r.st)
    /\ res' = [fn |-> "block_getflags", arg |-> a_addr, rv |-> 0,
               value |-> r.flags]
    /\ UNCHANGED <<fatfs, regfs, img, lastAcq, acqLog, walk>>

BlockGetFlags(a_addr, junk) ==
    BlockGetFlagsReturn(a_addr, junk, fatfs_block_getflags(CurSt, a_addr, junk))

\* the boot sector, the sectors around the two boundaries of the area
\* before the clusters, and every sector from the first cluster on
FlagSects ==
    {fatfs.first_block, fatfs.firstdatasect - 1, fatfs.firstdatasect,
     fatfs.firstclustsect - 1} \cup (fatfs.firstclustsect .. fatfs.last_block)

NextFlags ==
    \E a_addr \in FlagSects, junk \in Indeterminate :
        BlockGetFlags(a_addr, junk)

SpecFlags == InitFlags /\ [][NextFlags]_vars

\* C11: blockFlags of a sector is exactly META|ALLOC below firstDataSector,
\* exactly CONT|ALLOC from firstDataSector up to firstClusterSector, and in
\* the data area CONT together with exactly one of ALLOC and UNALLOC.
C11_BlockFlags ==
    res.fn = "block_getflags" =>
        IF res.arg < fatfs.firstdatasect
        THEN res.value = {"META", "ALLOC"}
        ELSE IF res.arg < fatfs.firstclustsect
        THEN res.value = {"CONT", "ALLOC"}
        ELSE res.value \in {{"CONT", "ALLOC"}, {"CONT", "UNALLOC"}}

(***************************************************************************)
(* The block walkers: fatfs_block_walk (fatfs.c 398-653) and               *)
(* reg_block_walk (regfs.c 375-470).  A walk runs from its call to the     *)
(* first invocation of the callback, and from each return of the callback  *)
(* to the next invocation or to the return of the walk.  walk.seen is the  *)
(* sequence of addresses handed to the callback.                           *)
(***************************************************************************)
WalkRets == {"TSK_WALK_CONT", "TSK_WALK_STOP", "TSK_WALK_ERROR"}

\* fatfs.c 441-451, regfs.c 409-419: the defaults of the walk flags
DefaultFlags(a_flags) ==
    LET f == IF a_flags \cap {"ALLOC", "UNALLOC"} = {}
             THEN a_flags \cup {"ALLOC", "UNALLOC"} ELSE a_flags
    IN  IF f \cap {"META", "CONT"} = {} THEN f \cup {"CONT", "META"} ELSE f

\* a walker that goes on after TSK_WALK_STOP
VerdictIgnoringStop(retval) ==
    IF retval = "TSK_WALK_ERROR" THEN 1 ELSE -1

\* fatfs.c 524-533, 637-646, regfs.c 456-463: what the walk returns after the
\* callback returned retval; -1 when the walk goes on
WalkVerdict(retval) ==
    CASE retval = "TSK_WALK_STOP" -> 0
      [] retval = "TSK_WALK_ERROR" -> 1
      [] OTHER -> -1

\* a cluster loop that hands out the sectors of a cluster last to first
MirroredSector(addr, i) == addr + (fatfs.csize - 1) - i

\* fatfs.c 627-632: sector i of the cluster that starts at addr
ClustSector(addr, i) == addr + i

\* tsk_fs_read_block(fs, addr, buf, len) reads len bytes: does it succeed
BlockReadOk(addr, bsize, len) == ReadCount(img, addr * bsize, len) = len

\* the error slot after a block read that came back short
ShortReadErrno(addr, bsize, len, errno) ==
    IF ReadCount(img, addr * bsize, len) >= 0 THEN "READ"
    ELSE ReadErrno(img, addr * bsize, len, errno)

\* walk.heap follows what the walk has allocated: blk is the block view
\* (fs_block), buf what data_buf points to; each is none, live or freed.
\* tsk_fs_block_alloc (fatfs.c 453, regfs.c 421), tsk_malloc (fatfs.c 470, 560)
HeapAlloc(w, o) ==
    [w EXCEPT !.heap[o] = "live", !.heap.allocs = @ + 1]

\* tsk_fs_block_free, free: o is released; a release of what was released
\* before is an error, a release of what was never allocated does nothing
HeapFree(w, o) ==
    IF w.heap[o] = "live"
    THEN [w EXCEPT !.heap[o] = "freed", !.heap.frees = @ + 1]
    ELSE IF w.heap[o] = "freed" THEN [w EXCEPT !.heap.bad = TRUE]
    ELSE w

\* o is read or written; it is an error unless o is live
HeapUse(w, o) == IF w.heap[o] = "live" THEN w ELSE [w EXCEPT !.heap.bad = TRUE]

\* an exit that releases the block view and forgets the scratch buffer
FreeViewOnly(w) == HeapFree(w, "blk")

\* fatfs.c 488-489, 525-526, 530-531, 577-578, 618-619, 638-639, 643-644,
\* 650-651: free(data_buf); tsk_fs_block_free(fs_block);
FreeBoth(w) == HeapFree(HeapFree(w, "buf"), "blk")

\* the walk moves on to the loop head `at`
WalkGoto(w, st, at) == [w |-> [w EXCEPT !.pc = "run", !.at = at], st |-> st]
\* the walk returns rv
WalkDone(w, st, rv) == [w |-> [w EXCEPT !.pc = "done", !.rv = rv], st |-> st]
\* the walk returns 1 after a read that came back short
WalkFailed(w, st, errno) ==
    [w  |-> [w EXCEPT !.pc = "done", !.rv = 1, !.readfail = TRUE],
     st |-> [st EXCEPT !.errno = errno]]
\* fatfs.c 519-523, 631-635, regfs.c 445-455: the block view is set to block
\* a with the flags myflags | RAW and the walk invokes the callback on it
WalkCall(w, st, a, myflags) ==
    [w  |-> [(IF w.fs = "fat" THEN HeapUse(HeapUse(w, "blk"), "buf")
              ELSE HeapUse(w, "blk"))
                EXCEPT !.pc = "cb", !.myflags = myflags,
                       !.blkflags = myflags \cup {"RAW"},
                       !.seen = Append(w.seen, a)],
     st |-> st]

\* fatfs.c 603-621: the cluster is read and its sectors handed out
ClustRead(w, st, myflags, read_size) ==
    IF ~BlockReadOk(w.addr, ssize, ssize * read_size)
    THEN WalkFailed(FreeBoth(HeapUse(w, "buf")), st,
                    ShortReadErrno(w.addr, ssize, ssize * read_size, st.errno))
    ELSE WalkGoto([HeapUse(w, "buf") EXCEPT !.i = 0, !.read_size = read_size,
                            !.myflags = myflags], st, "ClustInner")

\* fatfs.c 576-607: r is what fatfs_is_sectalloc returned for the cluster
ClustClassified(w, r) ==
    IF r.rv = -1 THEN WalkDone(FreeBoth(w), r.st, 1)
    ELSE IF \/ "CONT" \notin w.flags
            \/ (r.rv = 1 /\ "ALLOC" \notin w.flags)
            \/ (r.rv # 1 /\ "UNALLOC" \notin w.flags)
    THEN WalkGoto([w EXCEPT !.addr = w.addr + fatfs.csize], r.st, "ClustOuter")
    ELSE ClustRead(w, r.st,
                   {"CONT"} \cup (IF r.rv = 1 THEN {"ALLOC"} ELSE {"UNALLOC"}),
                   IF w.e - w.addr + 1 < fatfs.csize
                   THEN w.e - w.addr + 1 ELSE fatfs.csize)

\* fatfs.c 570-575: the head of the loop over the clusters
ClustOuter(w, st) ==
    IF w.addr > w.e THEN WalkDone(FreeBoth(w), st, 0)
    ELSE ClustClassified(w, fatfs_is_sectalloc(st, w.addr, w.junk))

\* fatfs.c 624-647: the head of the loop over the sectors of a cluster
ClustInner(w, st) ==
    IF w.i >= w.read_size
    THEN WalkGoto([w EXCEPT !.addr = w.addr + fatfs.csize], st, "ClustOuter")
    ELSE IF ClustSector(w.addr, w.i) < w.s
    THEN WalkGoto([w EXCEPT !.i = w.i + 1], st, "ClustInner")
    ELSE IF ClustSector(w.addr, w.i) > w.e
    THEN WalkGoto([w EXCEPT !.addr = w.addr + fatfs.csize], st, "ClustOuter")
    ELSE WalkCall(w, st, ClustSector(w.addr, w.i), w.myflags)

\* fatfs.c 558-563: the cluster loop starts at the first sector of the cluster
\* addr is in, with a scratch buffer of one cluster
ClustEnter(w, st, addr) ==
    WalkGoto([HeapAlloc(w, "buf") EXCEPT !.phase = "clust",
                       !.addr = FATFS_CLUST_2_SECT(FATFS_SECT_2_CLUST(addr))],
             st, "ClustOuter")

\* fatfs.c 537-544: after the sectors before the clusters the burst buffer is
\* released
AfterPreData(w, st) ==
    IF w.addr >= w.e THEN WalkDone(HeapFree(HeapFree(w, "buf"), "blk"), st, 0)
    ELSE ClustEnter(HeapFree(w, "buf"), st, w.addr)

\* fatfs.c 476-491: the head of the loop over the bursts
PreOuter(w, st) ==
    IF ~(w.addr < fatfs.firstclustsect /\ w.addr <= w.e)
    THEN AfterPreData(w, st)
    ELSE IF ~BlockReadOk(w.addr, ssize, ssize * PreDataBurst)
    THEN WalkFailed(FreeBoth(HeapUse(w, "buf")), st,
                    ShortReadErrno(w.addr, ssize, ssize * PreDataBurst, st.errno))
    ELSE WalkGoto([HeapUse(w, "buf") EXCEPT !.i = 0], st, "PreInner")

\* fatfs.c 495-534: the head of the loop over the sectors of a burst
PreInner(w, st) ==
    IF ~(w.i < PreDataBurst /\ w.addr <= w.e /\ w.addr < fatfs.firstclustsect)
    THEN WalkGoto(w, st, "PreOuter")
    ELSE
    LET myflags == {"ALLOC"} \cup (IF w.addr < fatfs.firstdatasect
                                   THEN {"META"} ELSE {"CONT"})
    IN  IF \/ ("META" \in myflags /\ "META" \notin w.flags)
           \/ ("CONT" \in myflags /\ "CONT" \notin w.flags)
        THEN WalkGoto([w EXCEPT !.i = w.i + 1, !.addr = w.addr + 1], st, "PreInner")
        ELSE WalkCall(w, st, w.addr, myflags)

\* a loop that also hands out the end block
RegMoreInclusive(blknum, a_end_blk) == blknum <= a_end_blk
\* regfs.c 427: the loop condition of reg_block_walk
RegMore(blknum, a_end_blk) == blknum < a_end_blk

\* regfs.c 427-453: the head of the loop of reg_block_walk
RegLoop(w, st) ==
    IF ~RegMore(w.addr, w.e) THEN WalkDone(HeapFree(w, "blk"), st, 0)
    ELSE IF ~BlockReadOk(w.addr, HBIN_SIZE, HBIN_SIZE)
    THEN WalkFailed(HeapFree(w, "blk"), st, ReadErrno(img, w.addr * HBIN_SIZE, HBIN_SIZE, st.errno))
    ELSE WalkCall([w EXCEPT !.read_size = HBIN_SIZE], st, w.addr,
                  {"ALLOC", "META", "CONT", "RAW"})

\* one pass through the loop head the walk is at
WalkAdvance(w, st) ==
    CASE w.at = "PreOuter" -> PreOuter(w, st)
      [] w.at = "PreInner" -> PreInner(w, st)
      [] w.at = "ClustOuter" -> ClustOuter(w, st)
      [] w.at = "ClustInner" -> ClustInner(w, st)
      [] OTHER -> RegLoop(w, st)

\* the walk runs until it invokes the callback or returns
RECURSIVE WalkRun(_)
WalkRun(r) == IF r.w.pc # "run" THEN r ELSE WalkRun(WalkAdvance(r.w, r.st))

\* fatfs.c 413-459: the checks and the set-up of fatfs_block_walk
fatfs_block_walk(st, a_start_blk, a_end_blk, a_flags, junk) ==
    LET st0 == [st EXCEPT !.errno = "NONE"]
        w0  == [NoWalk EXCEPT !.fs = "fat", !.s = a_start_blk, !.e = a_end_blk,
                              !.flags = DefaultFlags(a_flags),
                              !.addr = a_start_blk, !.junk = junk]
    IN  IF \/ a_start_blk < fatfs.first_block \/ a_start_blk > fatfs.last_block
           \/ a_end_blk < fatfs.first_block \/ a_end_blk > fatfs.last_block
        THEN WalkDone(w0, [st0 EXCEPT !.errno = "WALK_RNG"], 1)
        ELSE IF a_start_blk < fatfs.firstclustsect /\ "ALLOC" \in w0.flags
        THEN WalkRun(WalkGoto([HeapAlloc(HeapAlloc(w0, "blk"), "buf")
                                 EXCEPT !.phase = "pre"], st0, "PreOuter"))
        ELSE WalkRun(ClustEnter(HeapAlloc(w0, "blk"), st0,
                                IF a_start_blk < fatfs.firstclustsect
                                THEN fatfs.firstclustsect ELSE a_start_blk))

\* the walk after the callback returned retval
fatfs_block_walk_resume(w, st, retval) ==
    LET w1 == [w EXCEPT !.last = retval]
    IN  IF WalkVerdict(retval) # -1
        THEN WalkDone(FreeBoth(w1), st, WalkVerdict(retval))
        ELSE IF w.phase = "pre"
        THEN WalkRun(WalkGoto([w1 EXCEPT !.i = w.i + 1, !.addr = w.addr + 1],
                              st, "PreInner"))
        ELSE WalkRun(WalkGoto([w1 EXCEPT !.i = w.i + 1], st, "ClustInner"))

\* regfs.c 387-425
reg_block_walk(st, a_start_blk, a_end_blk, a_flags) ==
    LET st0 == [st EXCEPT !.errno = "NONE"]
        w0  == [NoWalk EXCEPT !.fs = "reg", !.s = a_start_blk, !.e = a_end_blk,
                              !.flags = DefaultFlags(a_flags),
                              !.addr = a_start_blk]
    IN  IF \/ a_start_blk < regfs.first_block \/ a_start_blk > regfs.last_block
           \/ a_end_blk < regfs.first_block \/ a_end_blk > regfs.last_block
        THEN WalkDone(w0, [st0 EXCEPT !.errno = "WALK_RNG"], 1)
        ELSE WalkRun(WalkGoto(HeapAlloc(w0, "blk"), st0, "RegLoop"))

\* regfs.c 455-465
reg_block_walk_resume(w, st, retval) ==
    LET w1 == [w EXCEPT !.last = retval]
    IN  IF WalkVerdict(retval) # -1
        THEN WalkDone(HeapFree(w1, "blk"), st, WalkVerdict(retval))
        ELSE WalkRun(WalkGoto([w1 EXCEPT !.addr = w.addr + 1], st, "RegLoop"))

(***************************************************************************)
(* SpecWalk: one block walk on a freshly opened FAT file system or hive,   *)
(* with a callback that answers CONT, STOP or ERROR as it likes.  The FAT  *)
(* image is whole or ends after the first cluster, the hive ends before    *)
(* its last block.                                                         *)
(***************************************************************************)
WalkFlagSets ==
    { {}, {"ALLOC", "META"}, {"UNALLOC", "CONT"}, {"ALLOC", "CONT"} }

InitWalk ==
    /\ InitCommon
    /\ \/ /\ \E csize \in {1, 2} :
                fatfs = OpenedFs(WalkRow, csize,
                                 WalkRow.rootsect + RootDirSects
                                   + csize * WalkRow.clustcnt + 2 * (csize - 1),
                                 "FAT16", "TSK_LIT_ENDIAN")
          /\ \E sectors \in {fatfs.last_block + 1,
                               fatfs.firstclustsect + fatfs.csize} :
                img = [id |-> "fat16le", size |-> sectors * ssize]
          /\ regfs = NoRegfs
       \/ /\ fatfs = NoFatfs
          /\ regfs = [first_block |-> 0, last_block |-> RegLastBlock]
          /\ img = [id |-> "hive", size |-> (RegLastBlock - 1) * HBIN_SIZE]

WalkStep(r) ==
    /\ walk' = r.w
    /\ StoreSt(r.st)
    /\ UNCHANGED <<fatfs, regfs, img, res, lastAcq, acqLog>>

\* the end sectors a FAT walk is asked for: from more than a burst before
\* the clusters to one past the last block
WalkAddrs ==
    (fatfs.firstclustsect - PreDataBurst - 1) .. (fatfs.last_block + 1)

\* the start sectors a FAT walk is asked for
WalkStarts ==
    { fatfs.firstclustsect - PreDataBurst - 1, fatfs.firstclustsect - 2,
      fatfs.firstclustsect, fatfs.firstclustsect + 1,
      fatfs.firstclustsect + 3 * fatfs.csize, fatfs.last_block + 1 }

FatWalkStart(s, e, a_flags, junk) ==
    /\ fatfs.ftype # "NONE"
    /\ walk.pc = "idle"
    /\ WalkStep(fatfs_block_walk(CurSt, s, e, a_flags, junk))

FatCallbackReturn(retval) ==
    /\ walk.pc = "cb" /\ walk.fs = "fat"
    /\ WalkStep(fatfs_block_walk_resume(walk, CurSt, retval))

RegWalkStart(s, e, a_flags) ==
    /\ regfs.last_block >= 0
    /\ walk.pc = "idle"
    /\ WalkStep(reg_block_walk(CurSt, s, e, a_flags))

RegCallbackReturn(retval) ==
    /\ walk.pc = "cb" /\ walk.fs = "reg"
    /\ WalkStep(reg_block_walk_resume(walk, CurSt, retval))

NextWalk ==
    \/ /\ fatfs.ftype # "NONE"
       /\ \E s \in WalkStarts, e \in WalkAddrs, a_flags \in WalkFlagSets,
             junk \in Indeterminate : FatWalkStart(s, e, a_flags, junk)
    \/ \E retval \in WalkRets : FatCallbackReturn(retval)
    \/ \E s \in 0 .. (RegLastBlock + 1), e \in 0 .. (RegLastBlock + 1),
          a_flags \in WalkFlagSets : RegWalkStart(s, e, a_flags)
    \/ \E retval \in WalkRets : RegCallbackReturn(retval)

SpecWalk == InitWalk /\ [][NextWalk]_vars

(***************************************************************************)
(* Claims about the block walkers (checked under SpecWalk).                *)
(***************************************************************************)
\* C7: the addresses a FAT or Registry block walk hands to its callback are
\* strictly increasing, whatever the start, the end, the flags and the FAT.
C7_WalkOrdered ==
    \A i, j \in 1 .. Len(walk.seen) : i < j => walk.seen[i] < walk.seen[j]

\* a FAT walk that went from the sectors before the clusters into a cluster
\* of more than one sector and came to its end
C7_Witness ==
    /\ walk.fs = "fat" /\ walk.pc = "done" /\ walk.rv = 0
    /\ walk.last = "TSK_WALK_CONT"
    /\ fatfs.csize > 1
    /\ \E i, j \in 1 .. Len(walk.seen) :
          /\ walk.seen[i] < fatfs.firstclustsect
          /\ walk.seen[j] = fatfs.firstclustsect + 1

\* the sectors of [s, e] whose block flags satisfy the flags of the walk
WalkExpected ==
    { a \in walk.s .. walk.e :
        /\ {"META", "CONT"} \cap walk.flags
             \cap fatfs_block_getflags(CurSt, a, walk.junk).flags # {}
        /\ {"ALLOC", "UNALLOC"} \cap walk.flags
             \cap fatfs_block_getflags(CurSt, a, walk.junk).flags # {} }

\* the last sector of the last cluster the FAT has an entry for
LastFatSector == FATFS_CLUST_2_SECT(fatfs.lastclust) + fatfs.csize - 1

\* C8: a FAT walk over [s, e] within [first_block, last_block], e not past
\* the clusters the FAT describes, whose reads all succeed and whose callback
\* always answers CONT, returns success having handed out exactly the sectors
\* of [s, e] whose classification satisfies the walk flags.
C8_WalkCoverage ==
    ( /\ walk.fs = "fat" /\ walk.pc = "done"
      /\ walk.last # "TSK_WALK_STOP" /\ walk.last # "TSK_WALK_ERROR"
      /\ ~walk.readfail
      /\ walk.s <= fatfs.last_block
      /\ walk.e <= LastFatSector )
    => /\ walk.rv = 0
       /\ { walk.seen[k] : k \in 1 .. Len(walk.seen) } = WalkExpected

\* C9: a walk whose callback answered STOP has returned 0, one whose callback
\* answered ERROR has returned 1, and in both the callback is not invoked
\* again: the walk is over at once.
C9_StopProtocol ==
    /\ walk.last = "TSK_WALK_STOP" => (walk.pc = "done" /\ walk.rv = 0)
    /\ walk.last = "TSK_WALK_ERROR" => (walk.pc = "done" /\ walk.rv = 1)

\* a walk stopped by its callback on the third block it was handed
C9_Witness ==
    /\ walk.pc = "done" /\ walk.last = "TSK_WALK_STOP" /\ walk.rv = 0
    /\ Len(walk.seen) = 3
    /\ walk.seen[3] < walk.e

(***************************************************************************)
(* fatfs_open (fatfs.c 1220-1694).  The image is given by its size, as a   *)
(* number of whole 512-byte sectors and the bytes left over, and by what   *)
(* its boot sectors hold: the kind of magic of the primary and of the      *)
(* backup sector, and the cluster-size and number-of-FATs fields as the    *)
(* 32-bit integers tsk_getu32 reads.  The partition offset is a number of  *)
(* sectors.  Returns [rv, errno, reads, fs]: rv = 1 stands for NULL, reads *)
(* counts the boot sectors read.                                           *)
(***************************************************************************)
XTAF_SECT_PER_FAT == 64
\* the sector of the backup boot sector (line 1274)
BackupSector == 6

\* TSK_FS_TYPE_ISFAT: the FAT types and the request to detect one
FatRequests == {"DETECT", "FAT12", "FAT16", "FAT32"}

\* lines 1400-1446: the known partitions, by image size (sectors, bytes
\* left over) and by partition offset (in sectors), in the order tested
XtafTable ==
    << [sizes |-> {<<285963, 408>>, <<9204095, 0>>, <<9466240, 0>>},
        offs |-> {},
        rootsect |-> 1176, sectperfat |-> 1160,
        clustcnt |-> 147910, lastclust |-> 147891],
       [sizes |-> {<<4194304, 0>>}, offs |-> {1024},
        rootsect |-> 528, sectperfat |-> 512,
        clustcnt |-> 65536, lastclust |-> 65527],
       [sizes |-> {<<4587520, 0>>}, offs |-> {4195328},
        rootsect |-> 2248, sectperfat |-> 2240,
        clustcnt |-> 65536, lastclust |-> 65527],
       [sizes |-> {<<422272, 0>>}, offs |-> {8782848},
        rootsect |-> 64, sectperfat |-> 56,
        clustcnt |-> 13196, lastclust |-> 13194],
       [sizes |-> {<<262144, 0>>}, offs |-> {9205120},
        rootsect |-> 48, sectperfat |-> 40,
        clustcnt |-> 8192, lastclust |-> 8190],
       [sizes |-> {<<524288, 0>>}, offs |-> {9467264},
        rootsect |-> 80, sectperfat |-> XTAF_SECT_PER_FAT,
        clustcnt |-> 16384, lastclust |-> 16381],
       [sizes |-> {<<478405615, 0>>}, offs |-> {9991552},
        rootsect |-> 116808, sectperfat |-> 116800,
        clustcnt |-> 14950175, lastclust |-> 14946525] >>

\* the rows whose size or offset test is true
MatchingRows(im, offsec) ==
    { k \in 1 .. Len(XtafTable) :
        \/ <<im.sectors, im.rem>> \in XtafTable[k].sizes
        \/ offsec \in XtafTable[k].offs }

OpenFail(errno, reads) ==
    [rv |-> 1, errno |-> errno, reads |-> reads, fs |-> NoFatfs]

\* tsk_fs_read of a boot sector: the whole sector lies inside the image
BootSectorReadable(im, offsec, sect) == offsec + sect < im.sectors

\* tsk_fs_guessu16 on the magic: the byte order in which it is the signature
GuessedEndian(magic) ==
    CASE magic = "SIG_LE" -> "TSK_LIT_ENDIAN"
      [] magic = "SIG_BE" -> "TSK_BIG_ENDIAN"
      [] OTHER -> "UNSET"

\* lines 1268-1313: the boot sector loop, at iteration i
RECURSIVE BootSectorLoop(_, _, _)
BootSectorLoop(im, offsec, i) ==
    IF ~BootSectorReadable(im, offsec, IF i = 0 THEN 0 ELSE BackupSector)
    THEN [ok |-> FALSE, errno |-> "READ", reads |-> i + 1, endian |-> "UNSET"]
    ELSE IF (IF i = 0 THEN im.primary ELSE im.backup) = "XTAF"
    THEN [ok |-> TRUE, errno |-> "NONE", reads |-> i + 1, endian |-> "UNSET"]
    ELSE IF GuessedEndian(IF i = 0 THEN im.primary ELSE im.backup) = "UNSET"
    THEN IF i = 0 /\ im.primary = "ZERO"
         THEN BootSectorLoop(im, offsec, 1)
         ELSE [ok |-> FALSE, errno |-> "MAGIC", reads |-> i + 1,
               endian |-> "UNSET"]
    ELSE [ok |-> TRUE, errno |-> "NONE", reads |-> i + 1,
          endian |-> GuessedEndian(IF i = 0 THEN im.primary ELSE im.backup)]

\* the cast to uint8_t of lines 1347 and 1367
Uint8(v) == v % 256

\* lines 1348-1355
ValidCsize(csize) == csize \in {1, 2, 4, 8, 16, 32, 64, 128}
\* line 1368
ValidNumfat(numfat) == ~(numfat = 0 \/ numfat > 8)

\* a detection that never chooses FAT16
DetectAlwaysFat32(clustcnt) == "FAT32"
\* lines 1529-1536
DetectFlavor(clustcnt) == IF clustcnt < 65524 THEN "FAT16" ELSE "FAT32"

\* a data area that starts past the first cluster
FirstDataSectPastRoot(row) == row.rootsect + 2 * RootDirSects + 1
\* line 1503
FirstDataSect(row) == row.rootsect

\* lines 1503-1625: the handle of a successful open
OpenHandle(im, b, row, flavor) ==
    [rv |-> 0, errno |-> "NONE", reads |-> b.reads,
     fs |-> [OpenedFs(row, Uint8(im.csize), im.sectors, flavor, b.endian)
                EXCEPT !.firstdatasect = FirstDataSect(row)]]

\* lines 1524-1550
OpenFlavor(im, ftype, b, row) ==
    IF ftype = "DETECT"
    THEN OpenHandle(im, b, row, DetectFlavor(row.clustcnt))
    ELSE IF ftype = "FAT12" /\ row.clustcnt >= 4085
    THEN OpenFail("MAGIC", b.reads)
    ELSE OpenHandle(im, b, row, ftype)

\* lines 1464-1487
OpenGeometry(im, ftype, b, row) ==
    IF row.sectperfat = 0 THEN OpenFail("MAGIC", b.reads)
    ELSE IF XTAF_FIRST_FAT_SECT = 0 \/ XTAF_FIRST_FAT_SECT > im.sectors
    THEN OpenFail("WALK_RNG", b.reads)
    ELSE OpenFlavor(im, ftype, b, row)

\* lines 1386-1462: the first row that matches, or no error kind at all
OpenTable(im, offsec, ftype, b) ==
    IF MatchingRows(im, offsec) = {}
    THEN OpenFail("NONE", b.reads)
    ELSE OpenGeometry(im, ftype, b, XtafTable[SetMin(MatchingRows(im, offsec))])

\* lines 1344-1378: b is what the boot sector loop returned
OpenFields(im, offsec, ftype, b) ==
    IF ~b.ok THEN OpenFail(b.errno, b.reads)
    ELSE IF ~ValidCsize(Uint8(im.csize)) THEN OpenFail("MAGIC", b.reads)
    ELSE IF ~ValidNumfat(Uint8(im.numfat)) THEN OpenFail("MAGIC", b.reads)
    ELSE OpenTable(im, offsec, ftype, b)

fatfs_open(im, offsec, ftype) ==
    IF ftype \notin FatRequests THEN OpenFail("ARG", 0)
    ELSE OpenFields(im, offsec, ftype, BootSectorLoop(im, offsec, 0))

(***************************************************************************)
(* SpecOpen: fatfs_open called once on an image, for any partition offset  *)
(* and any requested type.                                                 *)
(***************************************************************************)
\* the sizes of the table, and images of 5, 100, 1025, 2000 and 10^7 sectors
ImageSizes ==
    UNION { XtafTable[k].sizes : k \in 1 .. Len(XtafTable) }
      \cup {<<5, 0>>, <<100, 0>>, <<1025, 0>>, <<2000, 0>>, <<10000000, 0>>}

\* no offset, the offsets of the table, and one that is not in the table
OpenOffsets ==
    {0, 7} \cup UNION { XtafTable[k].offs : k \in 1 .. Len(XtafTable) }

MagicKinds == {"XTAF", "SIG_LE", "SIG_BE", "ZERO", "OTHER"}
CsizeFields == {0, 1, 3, 128, 256, 257}
NumfatFields == {0, 1, 8, 9, 257}

InitOpen ==
    /\ InitCommon
    /\ regfs = NoRegfs
    /\ fatfs = NoFatfs
    /\ \E size \in ImageSizes, primary \in MagicKinds,
          backup \in MagicKinds \ {"SIG_BE"},
          csize \in CsizeFields, numfat \in NumfatFields :
          img = [id |-> "volume", sectors |-> size[1], rem |-> size[2],
                 primary |-> primary, backup |-> backup,
                 csize |-> csize, numfat |-> numfat]

OpenReturn(offsec, ftype, o) ==
    /\ fatfs' = o.fs
    /\ tsk_errno' = o.errno
    /\ res' = [fn |-> "fatfs_open",
               arg |-> [offset |-> offsec, ftype |-> ftype],
               rv |-> o.rv, value |-> o.reads]
    /\ fatc_ttl' = EmptyTtl
    /\ fatc_addr' = EmptyAddr
    /\ UNCHANGED <<regfs, img, fatc_buf, lastAcq, acqLog, walk>>

Open(offsec, ftype) ==
    /\ res = NoCall
    /\ OpenReturn(offsec, ftype, fatfs_open(img, offsec, ftype))

NextOpen ==
    \E offsec \in OpenOffsets, ftype \in FatRequests \cup {"NTFS"} :
        Open(offsec, ftype)

SpecOpen == InitOpen /\ [][NextOpen]_vars

(***************************************************************************)
(* Properties of fatfs_open.                                               *)
(***************************************************************************)
OpenReturned == res.fn = "fatfs_open"
OpenSucceeded == OpenReturned /\ res.rv = 0
ValidMagics == {"XTAF", "SIG_LE", "SIG_BE"}
PowersOfTwoTo128 == {1, 2, 4, 8, 16, 32, 64, 128}

\* C12: after a successful open lastCluster = 1 + clusterCount, so that
\* getFat accepts every cluster of the cluster area.
C12_LastCluster ==
    OpenSucceeded => fatfs.lastclust = 1 + fatfs.clustcnt

C14_FieldValidation ==
    ( /\ OpenReturned
      /\ res.arg.ftype \in FatRequests
      /\ BootSectorLoop(img, res.arg.offset, 0).ok
      /\ (img.csize \notin PowersOfTwoTo128 \/ img.numfat \notin 1 .. 8) )
    => (res.rv = 1 /\ tsk_errno = "MAGIC")

\* the three-way rule of the FAT overview document
ThreeWayFlavor(clustcnt) ==
    IF clustcnt < 4085 THEN "FAT12"
    ELSE IF clustcnt < 65525 THEN "FAT16"
    ELSE "FAT32"

\* C15: a successful open that was asked to detect the type selects FAT12
\* below 4085 clusters, FAT16 below 65525 and FAT32 otherwise.
C15_Detect ==
    (OpenSucceeded /\ res.arg.ftype = "DETECT")
    => fatfs.ftype = ThreeWayFlavor(fatfs.clustcnt)

\* a detected FAT16 volume
C15_Witness ==
    /\ OpenSucceeded /\ res.arg.ftype = "DETECT"
    /\ fatfs.ftype = "FAT16" /\ fatfs.clustcnt = 13196

\* C16: when the primary boot sector is read and is neither XTAF nor signed,
\* the backup boot sector is read too, and the open fails at the magic test
\* only if the backup does not pass it either.
C16_BootFallback ==
    ( /\ OpenReturned
      /\ res.arg.ftype \in FatRequests
      /\ BootSectorReadable(img, res.arg.offset, 0)
      /\ img.primary \notin ValidMagics )
    => /\ res.value = 2
       /\ ( /\ res.rv = 1 /\ tsk_errno = "MAGIC"
            /\ BootSectorReadable(img, res.arg.offset, BackupSector)
            /\ img.csize \in PowersOfTwoTo128 /\ img.numfat \in 1 .. 8
            /\ res.arg.ftype # "FAT12" )
          => img.backup \notin ValidMagics

ErrorKinds ==
    {"ARG", "MAGIC", "READ", "WALK_RNG", "INODE_COR", "BLK_NUM", "UNSUPFUNC"}

\* C17: an open that returns NULL leaves one of the error kinds set.
C17_ErrorSurfacing ==
    (OpenReturned /\ res.rv = 1) => tsk_errno \in ErrorKinds

(***************************************************************************)
(* Properties of reg_block_walk (checked under SpecWalk).                  *)
(***************************************************************************)
\* the blocks s, s+1, ..., e-1
BlocksBefore(s, e) == [k \in 1 .. (IF e > s THEN e - s ELSE 0) |-> s + k - 1]

RegInRange(b) == b >= regfs.first_block /\ b <= regfs.last_block

\* C20: a Registry walk over in-range start_blk and end_blk whose callback
\* answers CONTINUE hands out the blocks start_blk .. end_blk - 1 in order,
\* each read as 4096 bytes and flagged ALLOC|META|CONT|RAW, and returns 0
\* when every read succeeds; a short read makes it return 1.
C20_RegWalk ==
    ( /\ walk.fs = "reg"
      /\ RegInRange(walk.s) /\ RegInRange(walk.e)
      /\ walk.last \in {"none", "TSK_WALK_CONT"} )
    => /\ walk.pc = "cb" =>
             /\ walk.myflags = {"ALLOC", "META", "CONT", "RAW"}
             /\ walk.read_size = 4096
             /\ walk.seen = BlocksBefore(walk.s, walk.s + Len(walk.seen))
             /\ walk.seen[Len(walk.seen)] < walk.e
       /\ (walk.pc = "done" /\ ~walk.readfail) =>
             (walk.rv = 0 /\ walk.seen = BlocksBefore(walk.s, walk.e))
       /\ (walk.pc = "done" /\ walk.readfail) => walk.rv = 1

\* a Registry walk that handed out three blocks, stopped before the end
\* block and returned success
C20_Witness ==
    /\ walk.fs = "reg" /\ walk.pc = "done" /\ walk.rv = 0
    /\ walk.last = "TSK_WALK_CONT" /\ ~walk.readfail
    /\ walk.s = 1 /\ walk.e = 4 /\ walk.seen = <<1, 2, 3>>

(***************************************************************************)
(* reg_load_cell (regfs.c 76-149) on the handle regfs_open builds          *)
(* (regfs.c 1173-1181).  A 32-bit word is kept as its two 16-bit halves    *)
(* [hi, lo].  Returns [rv, errno, cell]; cell.read tells whether the image *)
(* was read.                                                               *)
(***************************************************************************)
\* FIRST_HBIN_OFFSET of tsk_regfs.h
FIRST_HBIN_OFFSET == 4096

\* regfs.c 1173-1181: the handle for a hive whose header gives last_hbin_offset
OpenedHive(last_hbin_offset) ==
    [ first_inum  |-> FIRST_HBIN_OFFSET,
      last_inum   |-> last_hbin_offset + HBIN_SIZE,
      first_block |-> 0,
      last_block  |-> last_hbin_offset ]

\* the byte at offset a of a hive that holds the cell header im.hdr at every
\* offset that is a multiple of 8
HiveByte(im, a) == IF a % 8 < 6 THEN im.hdr[(a % 8) + 1] ELSE 0

\* tsk_getu32 and tsk_getu16 in little-endian order (fs->endian of a hive)
HiveU32(im, a) ==
    [hi |-> HiveByte(im, a + 3) * 256 + HiveByte(im, a + 2),
     lo |-> HiveByte(im, a + 1) * 256 + HiveByte(im, a)]
HiveU16(im, a) == HiveByte(im, a + 1) * 256 + HiveByte(im, a)

\* len & 1 << 31
SignBitSet(x) == x.hi >= 32768
\* the 32-bit word is INT32_MIN, the one value whose negation overflows
IsInt32Min(x) == x.hi = 32768 /\ x.lo = 0
\* -1 * (int32_t) x for a negative x other than INT32_MIN
Negated(x) ==
    IF x.lo = 0 THEN [hi |-> 65536 - x.hi, lo |-> 0]
    ELSE [hi |-> 65535 - x.hi, lo |-> 65536 - x.lo]
\* cell->length >= HBIN_SIZE
TooLong(length) == length.hi > 0 \/ length.lo >= HBIN_SIZE

\* what a build can make of the signed overflow of -1 * INT32_MIN: the
\* two's-complement result, or a trap that ends the process
OverflowOutcomes == {"wrap", "trap"}

\* lines 116-146
CellType(type) ==
    CASE type = 27510 -> "VK"
      [] type = 27502 -> "NK"
      [] type = 26220 -> "LF"
      [] type = 26732 -> "LH"
      [] type = 26988 -> "LI"
      [] type = 26994 -> "RI"
      [] type = 27507 -> "SK"
      [] type = 25188 -> "DB"
      [] OTHER -> "UNKNOWN"

NoCell == [read |-> FALSE, is_allocated |-> 0, length |-> -1, type |-> "NONE"]

\* lines 108-148: the length is known
CellChecked(im, inum, is_allocated, length) ==
    IF TooLong(length)
    THEN [rv |-> "TSK_ERR", errno |-> "INODE_COR",
          cell |-> [NoCell EXCEPT !.read = TRUE]]
    ELSE [rv |-> "TSK_OK", errno |-> "NONE",
          cell |-> [read |-> TRUE, is_allocated |-> is_allocated,
                    length |-> length.lo,
                    type |-> CellType(HiveU16(im, inum + 4))]]

\* lines 100-107: len is the first word of the header
CellSized(im, inum, len, ub) ==
    IF SignBitSet(len)
    THEN IF IsInt32Min(len)
         THEN IF ub = "trap"
              THEN [rv |-> "ABORT", errno |-> "NONE",
                    cell |-> [NoCell EXCEPT !.read = TRUE]]
              ELSE CellChecked(im, inum, 1, len)
         ELSE CellChecked(im, inum, 1, Negated(len))
    ELSE CellChecked(im, inum, 0, len)

reg_load_cell(rg, im, inum, ub) ==
    IF inum < rg.first_block \/ inum > rg.last_block
    THEN [rv |-> "TSK_ERR", errno |-> "BLK_NUM", cell |-> NoCell]
    ELSE IF ReadCount(im, inum, 6) # 6
    THEN [rv |-> "TSK_ERR", errno |-> "READ",
          cell |-> [NoCell EXCEPT !.read = TRUE]]
    ELSE CellSized(im, inum, HiveU32(im, inum), ub)

(***************************************************************************)
(* SpecCell: reg_load_cell called for offsets around the bounds of the     *)
(* hive, on hives that hold one of a set of cell headers.                  *)
(***************************************************************************)
\* the lengths -8, 8, 0, 4095, 4096, -4095, -4096, -2^31, 2^31 - 1, -1,
\* -65536 and 65536 as little-endian words
CellLengths ==
    { <<248, 255, 255, 255>>, <<8, 0, 0, 0>>, <<0, 0, 0, 0>>,
      <<255, 15, 0, 0>>, <<0, 16, 0, 0>>, <<1, 240, 255, 255>>,
      <<0, 240, 255, 255>>, <<0, 0, 0, 128>>, <<255, 255, 255, 127>>,
      <<255, 255, 255, 255>>, <<0, 0, 255, 255>>, <<0, 0, 1, 0>> }
\* the signatures nk and vk, and none
CellSignatures == { <<110, 107>>, <<118, 107>>, <<0, 0>> }

\* the hives end one block after the last HBIN, or inside a cell header
InitCell ==
    /\ InitCommon
    /\ fatfs = NoFatfs
    /\ \E hbins \in 1 .. 2, len \in CellLengths, sig \in CellSignatures,
          cut \in {0, 1} :
          /\ regfs = OpenedHive(hbins * HBIN_SIZE)
          /\ img = [id |-> "hive", hdr |-> len \o sig,
                    size |-> IF cut = 1 THEN hbins * HBIN_SIZE - 4
                             ELSE (hbins + 2) * HBIN_SIZE]

\* offsets around first_block, first_inum, last_block and last_inum
CellOffsets ==
    {0, 8, regfs.first_inum - 8, regfs.first_inum, regfs.last_block - 8,
     regfs.last_block, regfs.last_block + 8, regfs.last_inum,
     regfs.last_inum + 8}

LoadCellReturn(inum, r) ==
    /\ res' = [fn |-> "reg_load_cell", arg |-> inum, rv |-> r.rv,
               value |-> r.cell]
    /\ tsk_errno' = r.errno
    /\ UNCHANGED <<fatfs, regfs, img, fatc_ttl, fatc_addr, fatc_buf, lastAcq,
                   acqLog, walk>>

LoadCell(inum, ub) == LoadCellReturn(inum, reg_load_cell(regfs, img, inum, ub))

NextCell ==
    \E inum \in CellOffsets, ub \in OverflowOutcomes : LoadCell(inum, ub)

SpecCell == InitCell /\ [][NextCell]_vars

(***************************************************************************)
(* Properties of reg_load_cell (checked under SpecCell).                   *)
(***************************************************************************)
\* the call read the six bytes of the header
HeaderRead ==
    res.fn = "reg_load_cell" /\ res.value.read /\ tsk_errno # "READ"

\* the on-disk length L of the header is negative
HdrNegative == img.hdr[4] >= 128
\* the two halves of the on-disk length
HdrHi == img.hdr[4] * 256 + img.hdr[3]
HdrLo == img.hdr[2] * 256 + img.hdr[1]
\* |L| < 4096
HdrShort ==
    IF HdrNegative THEN HdrHi = 65535 /\ HdrLo > 65536 - 4096
    ELSE HdrHi = 0 /\ HdrLo < 4096
\* |L|, when it is below 4096
HdrAbs == IF HdrNegative THEN 65536 - HdrLo ELSE HdrLo

C19_CellRange ==
    res.fn = "reg_load_cell" =>
        IF res.arg < regfs.first_inum \/ res.arg > regfs.last_inum
        THEN res.rv = "TSK_ERR" /\ tsk_errno = "BLK_NUM" /\ ~res.value.read
        ELSE res.value.read

(***************************************************************************)
(* Claims about the walk of the root directory chain (SpecChainLive).      *)
(***************************************************************************)
ChainWalking == walk.pc \in {"chain", "chaindone"}

\* fatfs_getFAT was called for pairwise different clusters, at most clustcnt
\* times
ChainBounded ==
    ChainWalking =>
        /\ Len(walk.visited) <= fatfs.clustcnt
        /\ \A i, j \in 1 .. Len(walk.visited) :
              i # j => walk.visited[i] # walk.visited[j]

\* C21: the walk of the FAT32 root directory chain ends, whatever the FAT
\* holds; it calls getFat for each cluster at most once and at most
\* clusterCount times.
C21_ChainTerminates ==
    /\ []ChainBounded
    /\ (walk.pc = "chain") ~> (walk.pc = "chaindone")

\* a walk that ended because the chain came back to a cluster it had seen
C21_Witness ==
    /\ walk.pc = "chaindone"
    /\ Len(walk.visited) >= 3
    /\ walk.clust \in walk.list_seen
    /\ walk.clust_p = walk.clust

(***************************************************************************)
(* Claims about the flags of the blocks a walk delivers (SpecWalk).        *)
(***************************************************************************)
\* the FAT walk is in its callback
FatDelivered == walk.pc = "cb" /\ walk.fs = "fat"

\* the block the callback is looking at
DeliveredAddr == walk.seen[Len(walk.seen)]

\* C29: the flags of every block a FAT walk hands to its callback are the
\* flags fatfs_block_getflags gives for that sector, with RAW added.
C29_WalkFlagsAgree ==
    FatDelivered =>
        \A junk \in Indeterminate :
            walk.blkflags
              = fatfs_block_getflags(CurSt, DeliveredAddr, junk).flags \cup {"RAW"}

\* C24: when a FAT or Registry block walk has returned, whatever way it
\* left, the block view and every scratch buffer it allocated have been
\* released, each once; nothing was released twice or used after its release,
\* and whenever the callback runs the view and the buffer it points into are
\* live.
C24_ScopedRelease ==
    /\ ~walk.heap.bad
    /\ walk.pc = "done" =>
          /\ walk.heap.blk # "live" /\ walk.heap.buf # "live"
          /\ walk.heap.allocs = walk.heap.frees
    /\ walk.pc = "cb" =>
          /\ walk.heap.blk = "live"
          /\ walk.fs = "fat" => walk.heap.buf = "live"
          /\ walk.heap.frees = walk.heap.allocs - Cardinality(
                { o \in {"blk", "buf"} : walk.heap[o] = "live" })

\* a FAT walk that went through both phases, allocated the view and two
\* scratch buffers, and returned on the callback's answer
C24_Witness ==
    /\ walk.pc = "done" /\ walk.fs = "fat" /\ walk.phase = "clust"
    /\ walk.last \in {"TSK_WALK_STOP", "TSK_WALK_ERROR"}
    /\ walk.heap.allocs = 3 /\ walk.heap.frees = 3

(***************************************************************************)
(* Claims about the cache as the chain resolver leaves it (checked under   *)
(* Spec).                                                                  *)
(***************************************************************************)
\* the bytes of the image the window of slot i stands for
WindowBytes(i) ==
    [k \in 0 .. (FAT_CACHE_B - 1) |-> ImgByte(img, fatc_addr[i] * ssize + k)]

\* C28: after any sequence of getFat calls, short reads included, the buffer
\* of every slot in use holds exactly the bytes of the image at sectors
\* [baseSector, baseSector + FAT_CACHE_S).
C28_Coherence == \A i \in ActiveSlots : fatc_buf[i] = WindowBytes(i)

\* the latest call was a FAT12 getFat whose lookup returned a slot in which
\* the first byte of the entry is the last byte of the buffer
SplitCall ==
    /\ res.fn = "getFAT" /\ fatfs.ftype = "FAT12" /\ acqLog # << >>
    /\ EntryOffs("FAT12", res.arg, acqLog[1].sect) = FAT_CACHE_B - 1

\* the slot of the latest lookup no longer holds the sectors of its window
\* that lie before the sector of the entry
SplitMovedOn ==
    \A s \in acqLog[1].sect .. (EntrySect("FAT12", res.arg) - 1) :
        acqLog[1].idx \notin CacheHits(CurSt, s)

\* the entry stored for c after the sanity clamp
ClampedEntry(c) == IF InClampRange(StoredEntry(c)) THEN 0 ELSE StoredEntry(c)

\* C23 as stated: whenever the first byte of a FAT12 entry is the last byte of
\* the slot buffer, getFat succeeds, the slot has the entry's sector as its
\* base, the entry returned is the stored one, the slot no longer holds the
\* earlier sectors of its window, and the first sector of that window is in no
\* slot, so that a following getFat for a cluster in it is a miss.
C23_SplitReload ==
    SplitCall =>
        /\ res.rv = 0
        /\ fatc_addr[acqLog[1].idx] = EntrySect("FAT12", res.arg)
        /\ res.value = ClampedEntry(res.arg)
        /\ SplitMovedOn
        /\ CacheHits(CurSt, acqLog[1].sect) = {}

\* C23 amended: when the reload reads all FAT_CACHE_B bytes the call succeeds
\* with the stored entry and the slot rebased on the entry's sector, and the
\* first sector of the old window is a miss afterwards exactly when no other
\* slot holds it; when the reload reads less the call fails with READ and the
\* slot keeps its base.
C23_SplitReloadRead ==
    SplitCall =>
        IF ReadCount(img, EntrySect("FAT12", res.arg) * ssize, FAT_CACHE_B)
             = FAT_CACHE_B
        THEN /\ res.rv = 0
             /\ fatc_addr[acqLog[1].idx] = EntrySect("FAT12", res.arg)
             /\ res.value = ClampedEntry(res.arg)
             /\ SplitMovedOn
             /\ (CacheHits(CurSt, acqLog[1].sect) = {}) <=>
                   ~ \E j \in ActiveSlots \ {acqLog[1].idx} :
                        /\ acqLog[1].sect >= fatc_addr[j]
                        /\ acqLog[1].sect < fatc_addr[j] + FAT_CACHE_S
        ELSE /\ res.rv = 1
             /\ tsk_errno = "READ"
             /\ fatc_addr[acqLog[1].idx] = acqLog[1].sect

\* a reload that succeeded while another slot holds the first sector of the
\* old window
C23_Witness ==
    /\ SplitCall /\ res.rv = 0
    /\ fatc_addr[acqLog[1].idx] = EntrySect("FAT12", res.arg)
    /\ CacheHits(CurSt, acqLog[1].sect) # {}

\* the handle as fatfs_open leaves it: every slot unused
FreshSt == [ttl |-> EmptyTtl, addr |-> EmptyAddr, buf |-> EmptyBuf,
            errno |-> "NONE"]

\* C26: on an image whose reads all succeed, in every cache state a sequence
\* of getFat calls can reach, getFat(c) returns the status and the value it
\* returns on the freshly opened file system, for every c; the latest call
\* did so too.
C26_Transparency ==
    /\ \A c \in 0 .. (fatfs.lastclust + 2), vin \in Indeterminate :
          /\ fatfs_getFAT(CurSt, c, vin).rv = fatfs_getFAT(FreshSt, c, vin).rv
          /\ fatfs_getFAT(CurSt, c, vin).value
                = fatfs_getFAT(FreshSt, c, vin).value
    /\ (res.fn = "getFAT" /\ res.arg <= fatfs.lastclust) =>
          /\ res.rv = fatfs_getFAT(FreshSt, res.arg, 0).rv
          /\ res.value = fatfs_getFAT(FreshSt, res.arg, 0).value

\* a FAT12 call answered from a sector that two slots in use hold, one of
\* them moved there by a reload (its window starts where the other's does or
\* inside it)
C26_Witness ==
    /\ res.fn = "getFAT" /\ res.rv = 0 /\ res.arg <= fatfs.lastclust
    /\ fatfs.ftype = "FAT12"
    /\ Cardinality(CacheHits(CurSt, EntrySect("FAT12", res.arg))) >= 2
    /\ \E i, j \in ActiveSlots : i # j /\ fatc_addr[i] = fatc_addr[j]

\* the number of bytes of a FAT entry that getFat reads from the buffer
EntryWidth == IF fatfs.ftype = "FAT32" THEN 4 ELSE 2

\* C27: in every cache state, for every cluster whose entry getFat reads, the
\* 2 bytes (FAT12, FAT16) or 4 bytes (FAT32) read lie inside the slot buffer:
\* the offset is not negative and offset + width <= FAT_CACHE_B.
C27_BufferBounds ==
    \A c \in 0 .. fatfs.lastclust :
        fatfs_getFAT(CurSt, c, 0).rv = 0 =>
            /\ fatfs_getFAT(CurSt, c, 0).offs >= 0
            /\ fatfs_getFAT(CurSt, c, 0).offs + EntryWidth <= FAT_CACHE_B

\* a FAT12 entry whose first byte is the last byte of the slot that holds its
\* sector, read after the reload from the last byte of the first sector
C27_Witness ==
    /\ res.fn = "getFAT" /\ fatfs.ftype = "FAT12"
    /\ \E c \in 0 .. fatfs.lastclust :
          /\ CacheHits(CurSt, EntrySect("FAT12", c)) # {}
          /\ EntryOffs("FAT12", c,
                       fatc_addr[SetMin(CacheHits(CurSt, EntrySect("FAT12", c)))])
                = FAT_CACHE_B - 1
          /\ fatfs_getFAT(CurSt, c, 0).rv = 0
          /\ fatfs_getFAT(CurSt, c, 0).offs = ssize - 1

\* C30: after any sequence of getFat calls no two slots in use have the same
\* base sector.
C30_DistinctBases ==
    \A i, j \in ActiveSlots : i # j => fatc_addr[i] # fatc_addr[j]

====
